---- MODULE Spec2Model ----
(***************************************************************************)
(* A model of package httpspy (src/httpspy.go): the response-writer        *)
(* decorators simpleSpy (NewSpy) and simpleWriteSpy (NewWriteSpy), driven  *)
(* by goroutines that call Write, WriteHeader, Code, Body and WriteErr on  *)
(* one instance, and of Table.ServeHTTP (src/example_test.go), which       *)
(* offers one request to a table of handlers through a Spy.                *)
(* The wrapped http.ResponseWriter is the environment: it accepts a        *)
(* prefix of every Write and may return an error.                          *)
(***************************************************************************)
EXTENDS Integers, Sequences, FiniteSets, TLC

(* ------------------------------ bounds -------------------------------- *)

\* number of goroutines sharing the decorator
NumThreads == 2

\* number of Write / WriteHeader calls made on the decorator in one run
MaxCalls == 2

\* number of handlers in a Table
NumHandlers == 2

Threads == 1..NumThreads

\* no goroutine (an unlocked sync.Mutex)
NoThread == 0

\* byte slices passed to Write
Payloads == {<<"a">>, <<"b", "c">>}

\* status codes passed to WriteHeader
Codes == {0, 404, 500}

\* the nil error and the transfer errors of the wrapped writer
NoErr == "nil"

Errs == {"e1", "e2"}

\* http.StatusOK
StatusOK == 200

\* http.StatusNotFound
StatusNotFound == 404

\* the byte a caller stores into a slice Body() returned
Scribble == "x"

(* ------------------------------ state --------------------------------- *)

VARIABLES
    hasSink,      \* simpleSpy.w # nil
    kind,         \* "Spy" (NewSpy) or "WriteSpy" (NewWriteSpy)
    written,      \* simpleSpy.written
    code,         \* simpleSpy.code
    mut,          \* simpleSpy.mut: the goroutine holding it, or NoThread
    wmut,         \* simpleWriteSpy.mut: the goroutine holding it, or NoThread
    buf,          \* simpleWriteSpy.buf
    err,          \* simpleWriteSpy.err
    pc,           \* pc[t]: where goroutine t is in its call
    call,         \* call[t]: the call goroutine t is making: op, p, code
    loc,          \* loc[t]: the locals n, err of Write
    sinkBusy,     \* goroutines inside a method of the wrapped writer
    sinkGot,      \* sinkGot[t]: what the wrapped writer received in t's call
    sinkOut,      \* sinkOut[t]: what the wrapped writer returned in t's call
    sinkHdr,      \* the codes the wrapped writer's WriteHeader received
    sinkData,     \* the bytes the wrapped writer accepted, in order
    sinkFirst,    \* the first call the wrapped writer received
    sinkFirstErr, \* the first error the wrapped writer's Write returned
    sinkLastErr,  \* the last error the wrapped writer's Write returned
    dropped,      \* the codes of the WriteHeader calls that were not forwarded
    first,        \* the first Write or WriteHeader to enter simpleSpy.mut
    asked,        \* the bytes passed to Write, in the order of the calls
    calls,        \* Write and WriteHeader calls started
    body,         \* the slice the last Body() returned, as its holder sees it
    aliased,      \* that slice and s.buf still share their backing array
    tAt,          \* where Table.ServeHTTP is: "off" when no Table is running
    tIdx,         \* the index i of the loop of Table.ServeHTTP
    notFound      \* Table.ServeHTTP has called http.NotFound(resp, req)

vars == <<hasSink, kind, written, code, mut, wmut, buf, err, pc, call, loc,
          sinkBusy, sinkGot, sinkOut, sinkHdr, sinkData, sinkFirst,
          sinkFirstErr, sinkLastErr, dropped, first, asked, calls,
          body, aliased, tAt, tIdx, notFound>>

bodyVars == <<body, aliased>>
tableVars == <<tAt, tIdx, notFound>>

spyVars == <<written, code, mut>>
wspyVars == <<wmut, buf, err>>
sinkLog == <<sinkHdr, sinkData, sinkFirst, sinkFirstErr, sinkLastErr>>

NoCall == [op |-> "none", p |-> <<>>, code |-> 0]
NoLoc == [n |-> 0, err |-> NoErr]
NoFirst == [op |-> "none", code |-> 0]

\* p[:n]
Prefix(p, n) == SubSeq(p, 1, n)

(* --------------------------- constructors ----------------------------- *)

\* new(simpleSpy) with s.w = w
NewSpy ==
    /\ written = FALSE
    /\ code = 0
    /\ mut = NoThread

\* new(simpleWriteSpy) around a new simpleSpy
NewWriteSpy ==
    /\ NewSpy
    /\ wmut = NoThread
    /\ buf = <<>>
    /\ err = NoErr

\* nothing has been called yet
Fresh ==
    /\ NewWriteSpy
    /\ body = <<>>
    /\ aliased = FALSE
    /\ notFound = FALSE
    /\ pc = [t \in Threads |-> "idle"]
    /\ call = [t \in Threads |-> NoCall]
    /\ loc = [t \in Threads |-> NoLoc]
    /\ sinkBusy = {}
    /\ sinkGot = [t \in Threads |-> <<>>]
    /\ sinkOut = [t \in Threads |-> NoLoc]
    /\ sinkHdr = <<>>
    /\ sinkData = <<>>
    /\ sinkFirst = NoFirst
    /\ sinkFirstErr = NoErr
    /\ sinkLastErr = NoErr
    /\ dropped = {}
    /\ first = NoFirst
    /\ asked = <<>>
    /\ calls = 0

\* goroutines share a decorator made by NewSpy(w) or NewWriteSpy(w)
Init ==
    /\ hasSink \in BOOLEAN
    /\ kind \in {"Spy", "WriteSpy"}
    /\ Fresh
    /\ tAt = "off"
    /\ tIdx = 0

(* ------------------------- the wrapped writer -------------------------- *)

\* n, err := s.w.Write(p): an io.Writer accepts n <= len(p) bytes and
\* returns a non-nil error whenever n < len(p)
SinkWriteOutcomes(p) ==
    {o \in [n : 0..Len(p), err : Errs \cup {NoErr}] :
        o.n < Len(p) => o.err # NoErr}

\* the wrapped writer receives call c from goroutine t
SinkReceives(t, c) ==
    /\ sinkBusy' = sinkBusy \cup {t}
    /\ sinkGot' = [sinkGot EXCEPT ![t] = Append(@, c)]
    /\ sinkFirst' = IF sinkFirst.op = "none"
                    THEN [op |-> c.op, code |-> c.code] ELSE sinkFirst
    /\ sinkHdr' = IF c.op = "WriteHeader" THEN Append(sinkHdr, c.code) ELSE sinkHdr

(* ------------------------------ callers -------------------------------- *)

\* goroutine t begins call c at program point at
Begin(t, c, at) ==
    /\ pc[t] = "idle"
    /\ pc' = [pc EXCEPT ![t] = at]
    /\ call' = [call EXCEPT ![t] = c]
    /\ asked' = IF c.op = "Write" THEN asked \o c.p ELSE asked
    /\ UNCHANGED <<hasSink, kind, tableVars, bodyVars, spyVars, wspyVars, loc, sinkBusy, sinkGot,
                   sinkOut, sinkLog, dropped, first>>

\* the call of goroutine t returns to its caller
Return(t) ==
    /\ pc' = [pc EXCEPT ![t] = "idle"]
    /\ call' = [call EXCEPT ![t] = NoCall]
    /\ loc' = [loc EXCEPT ![t] = NoLoc]
    /\ sinkGot' = [sinkGot EXCEPT ![t] = <<>>]
    /\ sinkOut' = [sinkOut EXCEPT ![t] = NoLoc]

\* a goroutine calls Write(p): simpleWriteSpy.Write on a WriteSpy,
\* simpleSpy.Write on a Spy
CallWrite(t) ==
    /\ calls < MaxCalls
    /\ calls' = calls + 1
    /\ \E p \in Payloads :
        Begin(t, [op |-> "Write", p |-> p, code |-> 0],
              IF kind = "WriteSpy" THEN "ww_lock" ELSE "sw_lock")

\* a goroutine calls WriteHeader(c), promoted from the embedded simpleSpy
CallWriteHeader(t) ==
    /\ calls < MaxCalls
    /\ calls' = calls + 1
    /\ \E c \in Codes :
        Begin(t, [op |-> "WriteHeader", p |-> <<>>, code |-> c], "wh_lock")

\* a goroutine calls Code(), promoted from the embedded simpleSpy
CallCode(t) ==
    /\ calls' = calls
    /\ Begin(t, [op |-> "Code", p |-> <<>>, code |-> 0], "code_lock")

(* ----------------------------- sync.Mutex ------------------------------ *)

\* a mutex that lets every Lock() through
CanLockAlways(m) == TRUE

\* m.Lock() returns only when no goroutine holds m
CanLock(m) == m = NoThread

\* an Unlock() that leaves the mutex with goroutine t
AfterUnlockStillHeld(t) == t

\* m after goroutine t called m.Unlock()
AfterUnlock(t) == NoThread

(* ----------------------------- simpleSpy ------------------------------- *)

\* the bytes simpleSpy.Write passes to s.w.Write
ForwardedBytes(p) == p

\* what simpleSpy.Write returns, given what s.w.Write returned
SpyWriteResult(n, e) == [n |-> n, err |-> e]

\* a WriteHeader that tests s.code == 0 alone
HeaderAcceptedIgnoringWritten(c, w) == c = 0

\* a WriteHeader that tests !s.written alone
HeaderAcceptedUnlessWritten(c, w) == ~w

\* the test of WriteHeader: s.code == 0 && !s.written
HeaderAccepted(c, w) == c = 0 /\ ~w

\* a Code() without the implicit http.StatusOK of a first Write
CodeOfStoredCode(c, w) == c

\* a Code() that answers http.StatusOK whenever a Write was made
CodeOfWrittenFirst(c, w) == IF w THEN StatusOK ELSE c

\* what Code() returns for the fields it read
CodeOf(c, w) == IF c = 0 /\ w THEN StatusOK ELSE c

\* the value a Code() call returns in the current state
CodeValue == CodeOf(code, written)

\* the ghost record of the first mutating call
NoteFirst(c) ==
    first' = IF first.op = "none" THEN [op |-> c.op, code |-> c.code] ELSE first

\* simpleSpy.Write: s.mut.Lock(); s.written = true; s.w.Write(p) is entered.
\* A nil s.w makes the method call panic with s.mut still locked.
SpyWriteEnter(t) ==
    /\ pc[t] = "sw_lock"
    /\ CanLock(mut)
    /\ mut' = t
    /\ written' = TRUE
    /\ NoteFirst(call[t])
    /\ IF hasSink
       THEN /\ SinkReceives(t, [call[t] EXCEPT !.p = ForwardedBytes(@)])
            /\ pc' = [pc EXCEPT ![t] = "sw_sink"]
       ELSE /\ pc' = [pc EXCEPT ![t] = "panic"]
            /\ UNCHANGED <<sinkBusy, sinkGot, sinkFirst, sinkHdr>>
    /\ UNCHANGED <<hasSink, kind, tableVars, bodyVars, code, wspyVars, call, loc, sinkOut,
                   sinkData, sinkFirstErr, sinkLastErr, dropped, asked, calls>>

\* simpleSpy.Write: s.w.Write(p) returns n, err; s.mut.Unlock(). On a
\* WriteSpy the n, err returned are the locals of simpleWriteSpy.Write.
SpyWriteExit(t) ==
    /\ pc[t] = "sw_sink"
    /\ \E o \in SinkWriteOutcomes(sinkGot[t][Len(sinkGot[t])].p) :
        /\ sinkData' = sinkData \o Prefix(sinkGot[t][Len(sinkGot[t])].p, o.n)
        /\ sinkFirstErr' = IF sinkFirstErr = NoErr THEN o.err ELSE sinkFirstErr
        /\ sinkLastErr' = IF o.err # NoErr THEN o.err ELSE sinkLastErr
        /\ sinkOut' = [sinkOut EXCEPT ![t] = o]
        /\ loc' = [loc EXCEPT ![t] = SpyWriteResult(o.n, o.err)]
    /\ sinkBusy' = sinkBusy \ {t}
    /\ mut' = AfterUnlock(t)
    /\ pc' = [pc EXCEPT ![t] = IF kind = "WriteSpy" THEN "ww_append" ELSE "sw_ret"]
    /\ UNCHANGED <<hasSink, kind, tableVars, bodyVars, written, code, wspyVars, call, sinkGot,
                   sinkHdr, sinkFirst, dropped, first, asked, calls>>

\* simpleSpy.Write called on a Spy: return n, err to the caller
SpyWriteReturn(t) ==
    /\ pc[t] = "sw_ret"
    /\ Return(t)
    /\ UNCHANGED <<hasSink, kind, tableVars, bodyVars, spyVars, wspyVars, sinkBusy, sinkLog,
                   dropped, first, asked, calls>>

\* simpleSpy.WriteHeader: s.mut.Lock(); the test; s.code = code;
\* s.w.WriteHeader(code) is entered, or, the test failing, s.mut.Unlock().
\* A nil s.w makes the method call panic with s.mut still locked.
SpyWriteHeaderEnter(t) ==
    /\ pc[t] = "wh_lock"
    /\ CanLock(mut)
    /\ NoteFirst(call[t])
    /\ IF HeaderAccepted(code, written)
       THEN /\ code' = call[t].code
            /\ mut' = t
            /\ IF hasSink
               THEN /\ SinkReceives(t, call[t])
                    /\ pc' = [pc EXCEPT ![t] = "wh_sink"]
               ELSE /\ pc' = [pc EXCEPT ![t] = "panic"]
                    /\ UNCHANGED <<sinkBusy, sinkGot, sinkFirst, sinkHdr>>
            /\ UNCHANGED <<call, loc, sinkOut, dropped>>
       ELSE /\ Return(t)
            /\ dropped' = dropped \cup {call[t].code}
            /\ UNCHANGED <<code, mut, sinkBusy, sinkFirst, sinkHdr>>
    /\ UNCHANGED <<hasSink, kind, tableVars, bodyVars, written, wspyVars, sinkData, sinkFirstErr,
                   sinkLastErr, asked, calls>>

\* simpleSpy.WriteHeader: s.w.WriteHeader(code) returns; s.mut.Unlock()
SpyWriteHeaderExit(t) ==
    /\ pc[t] = "wh_sink"
    /\ sinkBusy' = sinkBusy \ {t}
    /\ mut' = AfterUnlock(t)
    /\ Return(t)
    /\ UNCHANGED <<hasSink, kind, tableVars, bodyVars, written, code, wspyVars, sinkLog, dropped,
                   first, asked, calls>>

\* simpleSpy.Code: s.mut.Lock(); the fields are copied; s.mut.Unlock();
\* CodeOf of the copies is returned
SpyCode(t) ==
    /\ pc[t] = "code_lock"
    /\ CanLock(mut)
    /\ Return(t)
    /\ UNCHANGED <<hasSink, kind, tableVars, bodyVars, spyVars, wspyVars, sinkBusy, sinkLog,
                   dropped, first, asked, calls>>

(* --------------------------- simpleWriteSpy ---------------------------- *)

\* a Write that tests n > 1 before it appends
AppendedOffByOne(p, n) == IF n > 1 THEN Prefix(p, n) ELSE <<>>

\* a Write that appends all of p once any of it was accepted
AppendedWhole(p, n) == IF n > 0 THEN p ELSE <<>>

\* what Write appends to s.buf: p[:n] if n > 0
Appended(p, n) == IF n > 0 THEN Prefix(p, n) ELSE <<>>

\* a Write that records every error, the slot being set or not
ErrRecordedOverwriting(e, slot) == e # NoErr

\* the test of Write on the error slot: err != nil && s.err == nil
ErrRecorded(e, slot) == e # NoErr /\ slot = NoErr

\* a Write that returns the count and swallows the error
WriteSpyResultNoError(n, e) == [n |-> n, err |-> NoErr]

\* what simpleWriteSpy.Write returns, given what simpleSpy.Write returned
WriteSpyResult(n, e) == [n |-> n, err |-> e]

\* s.buf.Write(q) while a slice Body() returned shares the backing array of
\* s.buf: the bytes are stored behind that slice in the same array, or, the
\* array being full, the buffer moves to a new one and the sharing ends
Realloc(a, q) == IF a /\ q # <<>> THEN {TRUE, FALSE} ELSE {a}

\* a simpleWriteSpy.Write that calls s.simpleSpy.Write(p) without its own lock
WriteSpyLockSkipped(t) ==
    /\ pc[t] = "ww_lock"
    /\ pc' = [pc EXCEPT ![t] = "sw_lock"]
    /\ UNCHANGED <<hasSink, kind, tableVars, bodyVars, spyVars, wspyVars, call,
                   loc, sinkBusy, sinkGot, sinkOut, sinkLog, dropped, first,
                   asked, calls>>

\* simpleWriteSpy.Write: s.mut.Lock(), then s.simpleSpy.Write(p) is called
WriteSpyLock(t) ==
    /\ pc[t] = "ww_lock"
    /\ CanLock(wmut)
    /\ wmut' = t
    /\ pc' = [pc EXCEPT ![t] = "sw_lock"]
    /\ UNCHANGED <<hasSink, kind, tableVars, bodyVars, spyVars, buf, err, call, loc, sinkBusy,
                   sinkGot, sinkOut, sinkLog, dropped, first, asked, calls>>

\* simpleWriteSpy.Write: if n > 0 { s.buf.Write(p[:n]) }; s.mut.Unlock()
WriteSpyAppend(t) ==
    /\ pc[t] = "ww_append"
    /\ buf' = buf \o Appended(call[t].p, loc[t].n)
    /\ wmut' = AfterUnlock(t)
    /\ pc' = [pc EXCEPT ![t] = "ww_err"]
    /\ body' = body
    /\ aliased' \in Realloc(aliased, Appended(call[t].p, loc[t].n))
    /\ UNCHANGED <<hasSink, kind, tableVars, spyVars, err, call, loc, sinkBusy, sinkGot,
                   sinkOut, sinkLog, dropped, first, asked, calls>>

\* simpleWriteSpy.Write: the test err != nil && s.err == nil, made after
\* s.mut.Unlock(); return n, err when it fails
WriteSpyTestErr(t) ==
    /\ pc[t] = "ww_err"
    /\ IF ErrRecorded(loc[t].err, err)
       THEN /\ pc' = [pc EXCEPT ![t] = "ww_seterr"]
            /\ UNCHANGED <<call, loc, sinkGot, sinkOut>>
       ELSE Return(t)
    /\ UNCHANGED <<hasSink, kind, tableVars, bodyVars, spyVars, wspyVars, sinkBusy, sinkLog,
                   dropped, first, asked, calls>>

\* simpleWriteSpy.Write: s.err = err; return n, err
WriteSpySetErr(t) ==
    /\ pc[t] = "ww_seterr"
    /\ err' = loc[t].err
    /\ Return(t)
    /\ UNCHANGED <<hasSink, kind, tableVars, bodyVars, spyVars, wmut, buf, sinkBusy, sinkLog,
                   dropped, first, asked, calls>>

\* the n, err a Write call of goroutine t returns, at its return points
Returning(t) == pc[t] \in {"sw_ret", "ww_err", "ww_seterr"}

WriteResult(t) ==
    IF kind = "WriteSpy" THEN WriteSpyResult(loc[t].n, loc[t].err) ELSE loc[t]

\* a goroutine calls Body() on a WriteSpy
CallBody(t) ==
    /\ kind = "WriteSpy"
    /\ calls' = calls
    /\ Begin(t, [op |-> "Body", p |-> <<>>, code |-> 0], "body_lock")

\* a goroutine calls WriteErr() on a WriteSpy
CallWriteErr(t) ==
    /\ kind = "WriteSpy"
    /\ calls' = calls
    /\ Begin(t, [op |-> "WriteErr", p |-> <<>>, code |-> 0], "werr_ret")

\* p := s.buf.Bytes(): the slice holds the unread bytes of the buffer
BufBytes(b) == b

\* simpleWriteSpy.Body: s.mut.Lock(); p := s.buf.Bytes(); s.mut.Unlock();
\* return p. Bytes() makes no copy: p is a slice of the array of s.buf
\* (an empty buffer has no array to share).
WriteSpyBody(t) ==
    /\ pc[t] = "body_lock"
    /\ CanLock(wmut)
    /\ body' = BufBytes(buf)
    /\ aliased' = (buf # <<>>)
    /\ Return(t)
    /\ UNCHANGED <<hasSink, kind, tableVars, spyVars, wspyVars, sinkBusy,
                   sinkLog, dropped, first, asked, calls>>

\* simpleWriteSpy.WriteErr: return s.err, read without s.mut
WriteSpyWriteErr(t) ==
    /\ pc[t] = "werr_ret"
    /\ Return(t)
    /\ UNCHANGED <<hasSink, kind, tableVars, bodyVars, spyVars, wspyVars,
                   sinkBusy, sinkLog, dropped, first, asked, calls>>

\* the value a WriteErr() call returns in the current state
WriteErrValue == err

\* the holder of the slice Body() returned stores a byte into it: p[i] = x.
\* The store lands in the array of s.buf while the two are shared.
CallerModifies ==
    /\ \E i \in 1..Len(body) :
        /\ body[i] # Scribble
        /\ body' = [body EXCEPT ![i] = Scribble]
        /\ buf' = IF aliased THEN [buf EXCEPT ![i] = Scribble] ELSE buf
    /\ UNCHANGED <<hasSink, kind, tableVars, aliased, spyVars, wmut, err, pc,
                   call, loc, sinkBusy, sinkGot, sinkOut, sinkLog, dropped,
                   first, asked, calls>>

(* --------------------------- Table.ServeHTTP --------------------------- *)

\* the goroutine that runs Table.ServeHTTP and the handlers it calls
Server == 1

\* spy := NewSpy(resp), resp being the server's response writer; the loop
\* is at its first handler
TableInit ==
    /\ hasSink = TRUE
    /\ kind = "Spy"
    /\ Fresh
    /\ tAt = "handler"
    /\ tIdx = 1

\* t[i].ServeHTTP(spy, req): the handler calls Write or WriteHeader on spy
TableHandlerCalls ==
    /\ tAt = "handler"
    /\ CallWrite(Server) \/ CallWriteHeader(Server)

\* what spy receives from the handler goes through simpleSpy
TableHandlerStep ==
    \/ SpyWriteEnter(Server)
    \/ SpyWriteExit(Server)
    \/ SpyWriteReturn(Server)
    \/ SpyWriteHeaderEnter(Server)
    \/ SpyWriteHeaderExit(Server)

\* the handler has returned and spy.Code() != 0: return
TableReturn ==
    /\ tAt = "handler"
    /\ pc[Server] = "idle"
    /\ CodeValue # 0
    /\ tAt' = "done"
    /\ UNCHANGED <<hasSink, kind, tIdx, notFound, bodyVars, spyVars, wspyVars,
                   pc, call, loc, sinkBusy, sinkGot, sinkOut, sinkLog, dropped,
                   first, asked, calls>>

\* the handler has returned and spy.Code() == 0: the loop goes on to t[i+1]
TableNextHandler ==
    /\ tAt = "handler"
    /\ pc[Server] = "idle"
    /\ CodeValue = 0
    /\ tIdx < NumHandlers
    /\ tIdx' = tIdx + 1
    /\ UNCHANGED <<hasSink, kind, tAt, notFound, bodyVars, spyVars, wspyVars,
                   pc, call, loc, sinkBusy, sinkGot, sinkOut, sinkLog, dropped,
                   first, asked, calls>>

\* the last handler has returned and spy.Code() == 0: the loop ends and
\* http.NotFound(resp, req) writes the 404 response to resp itself
TableNotFound ==
    /\ tAt = "handler"
    /\ pc[Server] = "idle"
    /\ CodeValue = 0
    /\ tIdx = NumHandlers
    /\ tAt' = "done"
    /\ notFound' = TRUE
    /\ sinkHdr' = Append(sinkHdr, StatusNotFound)
    /\ sinkFirst' = IF sinkFirst.op = "none"
                    THEN [op |-> "WriteHeader", code |-> StatusNotFound]
                    ELSE sinkFirst
    /\ UNCHANGED <<hasSink, kind, tIdx, bodyVars, spyVars, wspyVars, pc, call,
                   loc, sinkBusy, sinkGot, sinkOut, sinkData, sinkFirstErr,
                   sinkLastErr, dropped, first, asked, calls>>

(* --------------------------- specifications ---------------------------- *)

\* no call is in progress (a call that panicked was abandoned)
Quiet == \A t \in Threads : pc[t] \in {"idle", "panic"}

Call(t) == CallWrite(t) \/ CallWriteHeader(t) \/ CallCode(t)

Step(t) ==
    \/ SpyWriteEnter(t)
    \/ SpyWriteExit(t)
    \/ SpyWriteReturn(t)
    \/ SpyWriteHeaderEnter(t)
    \/ SpyWriteHeaderExit(t)
    \/ SpyCode(t)
    \/ WriteSpyLock(t)
    \/ WriteSpyAppend(t)
    \/ WriteSpyTestErr(t)
    \/ WriteSpySetErr(t)

\* goroutines call the decorator concurrently
Next == \E t \in Threads : Call(t) \/ Step(t)

Spec == Init /\ [][Next]_vars

\* one call at a time: a call begins only when no other is in progress
SeqNext == \E t \in Threads : (Quiet /\ Call(t)) \/ Step(t)

SeqSpec == Init /\ [][SeqNext]_vars

AnyCall(t) == Call(t) \/ CallBody(t) \/ CallWriteErr(t)

AnyStep(t) == Step(t) \/ WriteSpyBody(t) \/ WriteSpyWriteErr(t)

\* one call at a time, Body() and WriteErr() among them, by callers that
\* store into the slices Body() returned
AliasNext ==
    \/ \E t \in Threads : (Quiet /\ AnyCall(t)) \/ AnyStep(t)
    \/ CallerModifies

AliasSpec == Init /\ [][AliasNext]_vars

\* goroutines make all five calls concurrently; a goroutine inside a call
\* keeps being scheduled, and the wrapped writer returns from every call
LiveNext == \E t \in Threads : AnyCall(t) \/ AnyStep(t)

LiveSpec ==
    /\ Init
    /\ [][LiveNext]_vars
    /\ \A t \in Threads : WF_vars(AnyStep(t))

\* one request served by a Table
TableNext ==
    \/ TableHandlerCalls
    \/ TableHandlerStep
    \/ TableReturn
    \/ TableNextHandler
    \/ TableNotFound

TableSpec == TableInit /\ [][TableNext]_vars

(* ------------------------------- claims -------------------------------- *)

\* every call made has returned
AllIdle == \A t \in Threads : pc[t] = "idle"

\* C1: Code() is 0 while neither Write nor WriteHeader has been called, and
\* from the first Write or WriteHeader on it returns one fixed value, for
\* any codes passed to WriteHeader.
C1_CodeFixedFromFirstCall ==
    /\ [](first.op = "none" => CodeValue = 0)
    /\ [][first.op # "none" => CodeValue' = CodeValue]_vars

\* C2: when WriteHeader(c) is the first mutating call, Code() returns c from
\* then on and the wrapped writer receives WriteHeader(c) and no other
\* WriteHeader.
C2_FirstHeaderWins ==
    first.op = "WriteHeader" =>
        /\ CodeValue = first.code
        /\ hasSink => sinkHdr = <<first.code>>

\* C3: when Write is the first mutating call, Code() returns 200 from then
\* on, whatever the wrapped writer's Write returns.
C3_FirstWriteMeans200 == first.op = "Write" => CodeValue = StatusOK

\* a Write came first, returned an error, and a call was made after it
C3_Witness ==
    /\ first.op = "Write"
    /\ sinkFirstErr \in Errs
    /\ calls = 2
    /\ AllIdle
    /\ CodeValue = StatusOK

\* C4: a WriteHeader that runs after a Write is a no-op: it changes neither
\* the code nor what Code() returns, it is not forwarded and it returns; and
\* when the Write came first Code() stays 200 and the wrapped writer never
\* receives a WriteHeader.
C4_HeaderAfterWriteIsNoOp ==
    /\ [](first.op = "Write" => CodeValue = StatusOK /\ sinkHdr = <<>>)
    /\ [][\A t \in Threads :
            (pc[t] = "wh_lock" /\ pc'[t] # "wh_lock" /\ written) =>
                /\ code' = code
                /\ CodeValue' = CodeValue
                /\ sinkHdr' = sinkHdr
                /\ sinkBusy' = sinkBusy
                /\ pc'[t] = "idle"]_vars

\* Write, then WriteHeader(500): the call returned, dropped
C4_Witness ==
    /\ first.op = "Write"
    /\ 500 \in dropped
    /\ AllIdle
    /\ hasSink
    /\ CodeValue = StatusOK

\* C5: the wrapped writer receives at most one WriteHeader call, for any
\* codes.
C5_AtMostOneHeaderForwarded == Len(sinkHdr) <= 1

\* C6: around a nil writer no call panics, every Write reports
\* n = len(p) and a nil error, and after the calls Body() holds the bytes
\* written and WriteErr() is nil.
C6_NilSinkWritesSucceed ==
    ~hasSink =>
        /\ \A t \in Threads : pc[t] # "panic"
        /\ Quiet /\ kind = "WriteSpy" => buf = asked /\ err = NoErr

\* C7: on a WriteSpy called by one caller at a time, when every Write so far
\* returned in full and without error, Body() is the concatenation of the
\* inputs in call order.
C7_BodyIsConcatenationOfInputs ==
    (AllIdle /\ kind = "WriteSpy" /\ hasSink /\ sinkFirstErr = NoErr) =>
        buf = asked

\* two successful writes, "a" then "bc"
C7_Witness ==
    /\ AllIdle
    /\ kind = "WriteSpy"
    /\ sinkFirstErr = NoErr
    /\ calls = 2
    /\ asked = <<"a", "b", "c">>
    /\ buf = asked

C9_WriteForwardsAndReturnsVerbatim ==
    \A t \in Threads :
        /\ call[t].op = "Write" =>
              /\ Len(sinkGot[t]) <= 1
              /\ \A i \in 1..Len(sinkGot[t]) : sinkGot[t][i] = call[t]
        /\ Returning(t) =>
              /\ sinkGot[t] = <<call[t]>>
              /\ WriteResult(t) = sinkOut[t]

\* a second Write returns the error e2 when e1 is already recorded
C9_Witness ==
    \E t \in Threads :
        /\ Returning(t)
        /\ kind = "WriteSpy"
        /\ err = "e1"
        /\ sinkOut[t].err = "e2"
        /\ WriteResult(t).err = "e2"

\* C10: after a race for the first mutating call Code() is the code of the
\* WriteHeader the wrapped writer received first, or 200 if it received a
\* Write first, and the wrapped writer received no WriteHeader of a loser.
C10_OneStatusDecision ==
    (AllIdle /\ hasSink) =>
        /\ sinkFirst.op = "WriteHeader" =>
              CodeValue = sinkFirst.code /\ sinkHdr = <<sinkFirst.code>>
        /\ sinkFirst.op = "Write" =>
              CodeValue = StatusOK /\ sinkHdr = <<>>

\* C11: under concurrent Write calls on a WriteSpy the error slot, once
\* set, holds the first error the wrapped writer returned (in the order it
\* received the writes) and is never assigned again.
C11_ErrSlotSetOnceToFirstError ==
    /\ [](err # NoErr => err = sinkFirstErr)
    /\ [][err # NoErr => err' = err]_vars

\* C12: Body() returns a snapshot of the buffer: the value returned is what
\* is buffered at the call, a later Write does not change it, and a store
\* into the returned slice by its holder does not change the buffer (what a
\* later Body() returns).
C12_BodyIsSnapshot ==
    /\ [][\A t \in Threads :
            pc[t] = "body_lock" /\ pc'[t] = "idle" => body' = buf]_vars
    /\ [][(\E t \in Threads : pc[t] = "ww_append" /\ pc'[t] # pc[t])
            => body' = body]_vars
    /\ [][pc' = pc => buf' = buf]_vars

\* C13: Table.ServeHTTP calls its handlers in table order, calls no handler
\* after one that made the response writer receive something, calls
\* http.NotFound exactly when the response writer has received nothing from
\* the handlers, and so the response writer gets its response from one source.
C13_OneResponder ==
    /\ [][tIdx' # tIdx => tIdx' = tIdx + 1 /\ sinkFirst.op = "none"]_vars
    /\ [][notFound' /\ ~notFound => sinkFirst.op = "none"]_vars
    /\ [](tAt = "done" /\ ~notFound => sinkFirst.op # "none")

\* C14: the Write and WriteHeader calls one decorator forwards exclude one
\* another: at most one goroutine is inside a method of the wrapped writer.
C14_ForwardedCallsExclusive == Cardinality(sinkBusy) <= 1

\* one goroutine is inside the wrapped writer while another, having called
\* Write or WriteHeader, waits for simpleSpy.mut
C14_Witness ==
    \E t, u \in Threads :
        /\ t # u
        /\ sinkBusy = {t}
        /\ pc[t] \in {"sw_sink", "wh_sink"}
        /\ pc[u] \in {"sw_lock", "wh_lock"}

C16_EveryCallReturns ==
    /\ \A t \in Threads : (hasSink /\ pc[t] # "idle") ~> (pc[t] = "idle")
    /\ [](\A t \in Threads :
            /\ pc[t] = "idle" => mut # t /\ wmut # t
            /\ pc[t] \in {"ww_lock", "body_lock"} => mut # t
            /\ (mut = t /\ kind = "WriteSpy" /\ call[t].op = "Write")
                    => wmut = t)

\* a Write waits for simpleWriteSpy.mut, held by a Write that is inside the
\* wrapped writer, while no other call can be started
C16_Witness ==
    \E t, u \in Threads :
        /\ hasSink
        /\ pc[t] = "ww_lock"
        /\ wmut = u
        /\ mut = u
        /\ pc[u] = "sw_sink"
        /\ calls = MaxCalls

\* C17: no step of a Write call changes a value of Code() that is not 0, the
\* wrapped writer's Write succeeding or failing, and no step of a Write call
\* makes the wrapped writer receive a WriteHeader.
C17_WriteKeepsDecidedCode ==
    [][\A t \in Threads :
        (call[t].op = "Write" /\ pc'[t] # pc[t]) =>
            /\ CodeValue # 0 => CodeValue' = CodeValue
            /\ sinkHdr' = sinkHdr]_vars

\* WriteHeader(404) came first, then a Write that the wrapped writer failed
C17_Witness ==
    /\ AllIdle
    /\ first = [op |-> "WriteHeader", code |-> 404]
    /\ asked # <<>>
    /\ sinkFirstErr \in Errs
    /\ CodeValue = 404

C19_CodeZeroMeansNothingBut0 ==
    /\ []((AllIdle /\ hasSink) =>
            (CodeValue = 0 <=>
                /\ asked = <<>>
                /\ \A i \in 1..Len(sinkHdr) : sinkHdr[i] = 0))
    /\ [][\A t \in Threads :
            (hasSink /\ pc[t] = "wh_lock" /\ pc'[t] # pc[t]) =>
                (sinkHdr' # sinkHdr <=> (~written /\ code = 0))]_vars

\* two WriteHeader(0) calls were both forwarded and Code() is still 0
C19_Witness ==
    /\ AllIdle
    /\ hasSink
    /\ calls = 2
    /\ sinkHdr = <<0, 0>>
    /\ CodeValue = 0

====
